---------------------------- MODULE Spec2Model ----------------------------
(***************************************************************************)
(* A model of better_clock.cpp: the NTP synchronisation of checktime, its  *)
(* lwIP callbacks ntpcb_recv and ntpcb_dns, and the civil-time helpers     *)
(* ntp_apply_timezone and rtc_add_hours.                                   *)
(*                                                                         *)
(* Number representation.  TLC's integers are 32-bit signed, so a uint32_t *)
(* is kept as two 16-bit limbs [hi, lo] denoting hi * 2^16 + lo, and a     *)
(* time_t (64-bit on the newlib the Pico SDK builds with) is kept as a     *)
(* pair [days, secs] denoting days * 86400 + secs with secs in 0..86399.   *)
(***************************************************************************)
EXTENDS Integers, Sequences, FiniteSets, TLC

(***************************************************************************)
(* Program constants.                                                      *)
(***************************************************************************)
NTP_PORT == 123
NTP_PACKET_LEN == 48
\* BC_NTP_FREQUENCY_SECS: the seconds between two synchronisations.
BC_NTP_FREQUENCY_SECS == 3600
\* NTP_EPOCH_OFFSET is 2208988800 seconds = 25567 days of 86400 seconds.
NTP_EPOCH_DAYS == 25567
TZ_MAX == 14
TZ_MIN == -12

(***************************************************************************)
(* uint32_t as two 16-bit limbs.                                           *)
(***************************************************************************)
U32Zero == [hi |-> 0, lo |-> 0]

\* A decoding that takes the bytes least significant first.
ShiftOr_LittleEndian(b0, b1, b2, b3) == [hi |-> b3 * 256 + b2, lo |-> b1 * 256 + b0]

\* b0 << 24 | b1 << 16 | b2 << 8 | b3 for four bytes (the bit fields are
\* disjoint, so the bitwise or is the sum).
ShiftOr(b0, b1, b2, b3) == [hi |-> b0 * 256 + b1, lo |-> b2 * 256 + b3]

\* The four base-256 digits of a two-limb value, most significant first.
Digits256(u) == << u.hi \div 256, u.hi % 256, u.lo \div 256, u.lo % 256 >>

\* u \div 10 and u % 10 on two limbs (schoolbook division, base 2^16).
U32Div10(u) ==
  LET r == u.hi % 10
  IN  [hi |-> u.hi \div 10, lo |-> (r * 65536 + u.lo) \div 10]

U32Mod10(u) == ((u.hi % 10) * 65536 + u.lo) % 10

\* The decimal numeral of a two-limb value, most significant digit first.
RECURSIVE Decimal(_)
Decimal(u) ==
  IF u.hi = 0 /\ u.lo < 10 THEN << u.lo >>
  ELSE Append(Decimal(U32Div10(u)), U32Mod10(u))

\* A uint32_t count of seconds as [days, secs]: 86400 = 128 * 675, and
\* u \div 128 = hi * 512 + lo \div 128 fits 32 bits.
U32ToTime(u) ==
  LET q == u.hi * 512 + (u.lo \div 128)
      r == u.lo % 128
  IN  [days |-> q \div 675, secs |-> (q % 675) * 128 + r]

\* time_t arithmetic: t + n seconds, n a (small) signed number of seconds.
TimeAdd(t, n) ==
  LET s == t.secs + n
  IN  [days |-> t.days + (s \div 86400), secs |-> s % 86400]

(***************************************************************************)
(* The C library's calendar (newlib gmtime and mktime, no TZ set, so       *)
(* mktime works in UTC and never reads tm_isdst).                          *)
(***************************************************************************)
\* Days since 1970-01-01 of the proleptic Gregorian date y-m-d (m in 1..12).
DaysFromCivil(y, m, d) ==
  LET yy  == IF m <= 2 THEN y - 1 ELSE y
      era == yy \div 400
      yoe == yy - era * 400
      mp  == IF m > 2 THEN m - 3 ELSE m + 9
      doy == (153 * mp + 2) \div 5 + d - 1
      doe == yoe * 365 + (yoe \div 4) - (yoe \div 100) + doy
  IN  era * 146097 + doe - 719468

\* gmtime: a time_t to a struct tm (tm_year counts from 1900, tm_mon from 0).
gmtime(t) ==
  LET z   == t.days + 719468
      era == z \div 146097
      doe == z - era * 146097
      yoe == (doe - (doe \div 1460) + (doe \div 36524) - (doe \div 146096)) \div 365
      doy == doe - (365 * yoe + (yoe \div 4) - (yoe \div 100))
      mp  == (5 * doy + 2) \div 153
      d   == doy - ((153 * mp + 2) \div 5) + 1
      m   == IF mp < 10 THEN mp + 3 ELSE mp - 9
      y   == yoe + era * 400 + (IF m <= 2 THEN 1 ELSE 0)
  IN  [tm_year |-> y - 1900,
       tm_mon  |-> m - 1,
       tm_mday |-> d,
       tm_wday |-> (t.days + 4) % 7,
       tm_hour |-> t.secs \div 3600,
       tm_min  |-> (t.secs % 3600) \div 60,
       tm_sec  |-> t.secs % 60]

\* mktime: a struct tm to a time_t.  Out-of-range fields are normalised
\* (tm_mon 12 is January of the next year, tm_mday 31 in a 28-day month
\* runs into the next month); tm_wday is ignored.
mktime(tm) ==
  LET y    == 1900 + tm.tm_year + (tm.tm_mon \div 12)
      m    == (tm.tm_mon % 12) + 1
      days == DaysFromCivil(y, m, 1) + tm.tm_mday - 1
      s    == tm.tm_hour * 3600 + tm.tm_min * 60 + tm.tm_sec
  IN  TimeAdd([days |-> days, secs |-> 0], s)

(***************************************************************************)
(* datetime_t (Pico SDK): year 0..4095, month 1..12 (1 is January), day,   *)
(* dotw 0..6 (0 is Sunday), hour, min, sec.                                *)
(***************************************************************************)
datetime_t(y, mo, d, w, h, mi, s) ==
  [year |-> y, month |-> mo, day |-> d, dotw |-> w, hour |-> h, min |-> mi, sec |-> s]

\* int8_t conversion of an int (two's complement wrap).
ToInt8(n) == ((n + 128) % 256) - 128

\* ntp_apply_timezone: l_timet = p_ntptime - NTP_EPOCH_OFFSET + 3600 * p_timezone,
\* then the struct tm of gmtime copied field by field into the datetime_t.
ntp_apply_timezone(p_ntptime, p_timezone) ==
  LET u          == U32ToTime(p_ntptime)
      l_timet    == TimeAdd([days |-> u.days - NTP_EPOCH_DAYS, secs |-> u.secs],
                            3600 * p_timezone)
      l_tmstruct == gmtime(l_timet)
  IN  datetime_t(l_tmstruct.tm_year, l_tmstruct.tm_mon, l_tmstruct.tm_mday,
                 l_tmstruct.tm_wday, l_tmstruct.tm_hour, l_tmstruct.tm_min,
                 l_tmstruct.tm_sec)

\* rtc_add_hours: the datetime_t copied field by field into a struct tm,
\* mktime, + 3600 * p_offset, gmtime, copied back field by field.
rtc_add_hours(p_rtctime, p_offset) ==
  LET l_tmstruct == [tm_year |-> p_rtctime.year,
                     tm_mon  |-> p_rtctime.month,
                     tm_mday |-> p_rtctime.day,
                     tm_wday |-> p_rtctime.dotw,
                     tm_hour |-> p_rtctime.hour,
                     tm_min  |-> p_rtctime.min,
                     tm_sec  |-> p_rtctime.sec]
      l_timet    == TimeAdd(mktime(l_tmstruct), 3600 * p_offset)
      l_tmsptr   == gmtime(l_timet)
  IN  datetime_t(l_tmsptr.tm_year, l_tmsptr.tm_mon, l_tmsptr.tm_mday,
                 l_tmsptr.tm_wday, l_tmsptr.tm_hour, l_tmsptr.tm_min,
                 l_tmsptr.tm_sec)

(***************************************************************************)
(* Packets.  A received pbuf is its payload, a sequence of bytes (byte i   *)
(* of the packet is buf[i + 1]).                                           *)
(***************************************************************************)
\* pbuf_get_at: the byte at an offset, 0 when the offset is out of range.
pbuf_get_at(buf, offset) == IF offset < Len(buf) THEN buf[offset + 1] ELSE 0

\* pbuf_copy_partial of len bytes from an offset that lies within the buffer.
pbuf_copy_partial(buf, len, offset) == [i \in 1..len |-> buf[offset + i]]

\* A validation that does not look at the stratum.
LooksValid_AnyStratum(buf, p_port) ==
  /\ p_port = NTP_PORT
  /\ Len(buf) = NTP_PACKET_LEN
  /\ pbuf_get_at(buf, 0) % 8 = 4

\* The condition of ntpcb_recv's if.
LooksValid(buf, p_port) ==
  LET l_mode    == pbuf_get_at(buf, 0) % 8
      l_stratum == pbuf_get_at(buf, 1)
  IN  /\ p_port = NTP_PORT
      /\ Len(buf) = NTP_PACKET_LEN
      /\ l_mode = 4
      /\ l_stratum # 0

\* ntpcb_recv: the ntpstate_t after the callback has run on a packet.
ntpcb_recv(l_ntpstate, buf, p_port) ==
  IF LooksValid(buf, p_port)
  THEN LET l_ntptime == pbuf_copy_partial(buf, 4, 40)
       IN  [l_ntpstate EXCEPT !.time =
              ShiftOr(l_ntptime[1], l_ntptime[2], l_ntptime[3], l_ntptime[4])]
  ELSE l_ntpstate

(***************************************************************************)
(* The state.                                                              *)
(*                                                                         *)
(* Program state: checktime's statics l_active, l_connecting, l_ntpstate   *)
(* (socket 0 is nullptr, server 0 is the zero-initialised address), main's *)
(* l_timezone, and the real-time clock rtc.                                *)
(*                                                                         *)
(* Environment (cyw43 driver and lwIP): cyw43 is TRUE between              *)
(* cyw43_arch_init and cyw43_arch_deinit; bound is TRUE once udp_sendto    *)
(* has bound the session's pcb to a local port (lwIP hands datagrams only  *)
(* to bound pcbs); dns is "pending" while a lookup that returned           *)
(* ERR_INPROGRESS has not yet called back; crashed is TRUE after a fault.  *)
(*                                                                         *)
(* History: cycle counts the cycles started; requests counts the           *)
(* ntp_request calls since the current cycle started; resolved says that   *)
(* resolution reported an address, and accepted that ntpcb_recv accepted a *)
(* packet, since the current cycle started; late says that a packet was    *)
(* accepted after the last cycle ended; result is what the last checktime  *)
(* returned and outcome what it (or the last callback) found; presses      *)
(* counts the timezone button presses; lookups counts the                  *)
(* dns_gethostbyname calls since the current cycle started; ended is the   *)
(* second at which the last cycle ended (0 before any has); dropped says  *)
(* that the last step was a packet ntpcb_recv did not accept.              *)
(*                                                                         *)
(* main's l_current_tick and l_ntp_tick are kept in whole seconds since    *)
(* boot (the program keeps microseconds and compares against               *)
(* BC_NTP_FREQUENCY_SECS * BC_USECS_IN_SEC).                               *)
(*                                                                         *)
(* Callbacks run between two calls of checktime, never inside one.         *)
(*                                                                         *)
(* call, ret and pcf are the state of the second specification, SpecFn,    *)
(* which applies the pure functions to drawn arguments.                    *)
(*                                                                         *)
(* l_raindrops and drawn are the state of the rain animation (rain.cpp), a *)
(* program of its own, specified by SpecRain.                              *)
(***************************************************************************)
VARIABLES l_active, l_connecting, l_ntpstate, l_timezone, rtc,
          l_current_tick, l_ntp_tick,
          cyw43, bound, dns, crashed,
          cycle, requests, resolved, accepted, late, result, outcome, presses,
          lookups, ended, dropped,
          call, ret, pcf,
          l_raindrops, drawn

progVars == << l_active, l_connecting, l_ntpstate, l_timezone, rtc >>
tickVars == << l_current_tick, l_ntp_tick >>
envVars  == << cyw43, bound, dns, crashed >>
histVars == << cycle, requests, resolved, accepted, late, result, outcome, presses,
               lookups, ended >>
fnVars   == << call, ret, pcf >>
rainVars == << l_raindrops, drawn >>
vars     == << progVars, tickVars, envVars, histVars, dropped, fnVars, rainVars >>

(***************************************************************************)
(* Bounds of the model.                                                    *)
(***************************************************************************)
\* Cycles a behaviour may start.
MaxCycles == 2
\* Timezone button presses a behaviour may make.
MaxPresses == 2
\* Frames of main's loop a behaviour may run.
MaxFrames == 5
\* The same three bounds for the specification of the timezone buttons,
\* SpecKeys, which presses often enough to reach both ends of the range.
MaxKeyCycles == 1
MaxKeyPresses == 15
MaxKeyFrames == 3

(***************************************************************************)
(* Inputs.                                                                 *)
(***************************************************************************)
\* cyw43_tcpip_link_status results.
LinkStatus == {"CYW43_LINK_DOWN", "CYW43_LINK_JOIN", "CYW43_LINK_NOIP",
               "CYW43_LINK_UP", "CYW43_LINK_FAIL", "CYW43_LINK_NONET",
               "CYW43_LINK_BADAUTH"}

\* dns_gethostbyname results: a cached entry, a query sent, an error.
DnsResult == {"ERR_OK", "ERR_INPROGRESS", "ERR_MEM"}

\* Addresses name resolution may report (0 is no address, nullptr).
Addrs == {1, 2}

\* A packet of len bytes: byte 0, byte 1, bytes 40..43, zero elsewhere.
MkPacket(len, b0, b1, ts) ==
  [i \in 1..len |-> IF i = 1 THEN b0
                    ELSE IF i = 2 THEN b1
                    ELSE IF i \in 41..44 THEN ts[i - 40]
                    ELSE 0]

\* Raw timestamps a response may carry: zero, 0xE54C0000 (2021-11-27
\* 00:53:20) and 0xE58C8D00 (2022-01-15 00:00:00, a January date).
TimeBytes == { << 0, 0, 0, 0 >>, << 229, 76, 0, 0 >>, << 229, 140, 141, 0 >> }

\* Datagrams that may reach the endpoint, each a source port and a payload:
\* a server's answer (0x24: version 4, mode 4; stratum 2) with each
\* timestamp, and answers wrong in one respect: the source port, the
\* length, the mode (0x1B, a client's request), the stratum (0).
Datagrams ==
  { [port |-> 123, buf |-> MkPacket(48, 36, 2, ts)] : ts \in TimeBytes }
    \cup { [port |-> 124, buf |-> MkPacket(48, 36, 2, << 229, 76, 0, 0 >>)],
           [port |-> 123, buf |-> MkPacket(47, 36, 2, << 229, 76, 0, 0 >>)],
           [port |-> 123, buf |-> MkPacket(48, 27, 2, << 229, 76, 0, 0 >>)],
           [port |-> 123, buf |-> MkPacket(48, 36, 0, << 229, 76, 0, 0 >>)] }

(***************************************************************************)
(* The real-time clock (hardware/rtc.h).  rtc_set_datetime stores a record *)
(* only if it is a valid datetime_t and leaves the clock alone otherwise;  *)
(* elapsed time is abstracted: the clock holds what was last stored.       *)
(***************************************************************************)
valid_datetime(t) ==
  /\ t.year \in 0..4095
  /\ t.month \in 1..12
  /\ t.day \in 1..31
  /\ t.dotw \in 0..6
  /\ t.hour \in 0..23
  /\ t.min \in 0..59
  /\ t.sec \in 0..59

rtc_set_datetime(clock, t) == IF valid_datetime(t) THEN t ELSE clock

(***************************************************************************)
(* checktime and the callbacks, as functions of the state s they read and  *)
(* write: a record of the program and environment variables, with ev the   *)
(* set of the calls and findings of the run so far.                        *)
(***************************************************************************)
NonZero(u) == u.hi # 0 \/ u.lo # 0

Did(s, e) == [s EXCEPT !.ev = @ \cup e]

\* ntp_request.  env.pbuf_ok: pbuf_alloc returned a buffer.  Without one,
\* l_buffer->payload dereferences a null pointer: the run either faults
\* (env.fault) or goes on with no packet sent, udp_sendto refusing the null
\* buffer.  udp_sendto binds the pcb to a local port and sends the packet.
ntp_request(s, env) ==
  LET t == Did(s, {"ntp_request"})
  IN  IF ~env.pbuf_ok
      THEN IF env.fault THEN [t EXCEPT !.crashed = TRUE] ELSE t
      ELSE IF t.l_ntpstate.socket = 0 THEN t
      ELSE Did([t EXCEPT !.bound = TRUE], {"udp_sendto"})

\* ntpcb_dns: p_addr is the resolved address, 0 for nullptr.
ntpcb_dns(s, p_addr, env) ==
  LET t == [s EXCEPT !.dns = "none"]
  IN  IF p_addr # 0
      THEN ntp_request(Did([t EXCEPT !.l_ntpstate.server = p_addr], {"resolved"}), env)
      ELSE Did([t EXCEPT !.l_ntpstate.active_query = FALSE], {"resolution_error"})

\* A start of cycle that leaves the pcb of the cycle before in place.
StartCycle_KeepsSocket(s) ==
  Did([s EXCEPT !.cyw43 = TRUE,
                !.l_connecting = TRUE,
                !.l_active = TRUE,
                !.l_ntpstate = [@ EXCEPT !.active_query = FALSE, !.time = U32Zero]],
      {"cyw43_arch_init"})

\* A start of cycle that leaves the time of the cycle before in place.
StartCycle_KeepsTime(s) ==
  Did([s EXCEPT !.cyw43 = TRUE,
                !.l_connecting = TRUE,
                !.l_active = TRUE,
                !.bound = FALSE,
                !.l_ntpstate = [@ EXCEPT !.socket = 0, !.active_query = FALSE]],
      {"cyw43_arch_init"})

\* checktime, lines 275 to 288: the wireless is started, and the NTP state
\* reset (udp_remove frees the pcb, bound or not).
StartCycle(s) ==
  LET removed == s.l_ntpstate.socket # 0
  IN  Did([s EXCEPT !.cyw43 = TRUE,
                    !.l_connecting = TRUE,
                    !.l_active = TRUE,
                    !.bound = FALSE,
                    !.l_ntpstate = [@ EXCEPT !.socket = 0,
                                             !.active_query = FALSE,
                                             !.time = U32Zero]],
          {"cyw43_arch_init"} \cup (IF removed THEN {"udp_remove"} ELSE {}))

\* checktime, lines 298 and 299: the link has failed hard.
HardFailure(l_link_status) ==
  l_link_status \in {"CYW43_LINK_FAIL", "CYW43_LINK_BADAUTH", "CYW43_LINK_NONET"}

\* A teardown that leaves the session active.
TearDown_StaysActive(s) ==
  Did([s EXCEPT !.cyw43 = FALSE, !.l_connecting = FALSE], {"cyw43_arch_deinit"})

\* checktime, lines 302 to 305 and 342 to 344: the connection is torn down.
TearDown(s) ==
  Did([s EXCEPT !.cyw43 = FALSE, !.l_active = FALSE, !.l_connecting = FALSE],
      {"cyw43_arch_deinit"})

\* A lookup that sends the request as soon as the query is in progress.
Lookup_SendsAtOnce(s, env) ==
  LET l_error == env.dns_err
      t == Did([s EXCEPT !.l_ntpstate.active_query = TRUE,
                         !.l_ntpstate.server =
                            IF l_error = "ERR_OK" THEN env.addr ELSE @,
                         !.dns = IF l_error = "ERR_INPROGRESS" THEN "pending" ELSE @],
               {"dns_gethostbyname"})
  IN  IF l_error = "ERR_OK"
      THEN [s |-> ntp_request(Did(t, {"resolved"}), env), ret |-> FALSE]
      ELSE IF l_error = "ERR_INPROGRESS"
      THEN [s |-> ntp_request(t, env), ret |-> FALSE]
      ELSE [s |-> Did([t EXCEPT !.l_ntpstate.active_query = FALSE],
                      {"resolution_error"}),
            ret |-> FALSE]

\* checktime, lines 351 to 368: no query is active, so the server's address
\* is asked for.  On ERR_OK dns_gethostbyname has stored the cached address.
Lookup(s, env) ==
  LET l_error == env.dns_err
      t == Did([s EXCEPT !.l_ntpstate.active_query = TRUE,
                         !.l_ntpstate.server =
                            IF l_error = "ERR_OK" THEN env.addr ELSE @,
                         !.dns = IF l_error = "ERR_INPROGRESS" THEN "pending" ELSE @],
               {"dns_gethostbyname"})
  IN  IF l_error = "ERR_OK"
      THEN [s |-> ntp_request(Did(t, {"resolved"}), env), ret |-> FALSE]
      ELSE IF l_error # "ERR_INPROGRESS"
      THEN [s |-> Did([t EXCEPT !.l_ntpstate.active_query = FALSE],
                      {"resolution_error"}),
            ret |-> FALSE]
      ELSE [s |-> t, ret |-> FALSE]

\* A wait that clears the time once it has used it.
AwaitTime_ClearsTime(s, p_timezone) ==
  IF NonZero(s.l_ntpstate.time)
  THEN [s |-> TearDown(Did([s EXCEPT !.rtc =
                  rtc_set_datetime(@, ntp_apply_timezone(s.l_ntpstate.time,
                                                         p_timezone)),
                                     !.l_ntpstate.time = U32Zero],
                           {"rtc_set_datetime"})),
        ret |-> TRUE]
  ELSE [s |-> s, ret |-> FALSE]

\* A wait that writes the clock and tears down but reports more work.
AwaitTime_ReturnsFalse(s, p_timezone) ==
  IF NonZero(s.l_ntpstate.time)
  THEN [s |-> TearDown(Did([s EXCEPT !.rtc =
                  rtc_set_datetime(@, ntp_apply_timezone(s.l_ntpstate.time,
                                                         p_timezone))],
                           {"rtc_set_datetime"})),
        ret |-> FALSE]
  ELSE [s |-> s, ret |-> FALSE]

\* checktime, lines 333 to 346: with a query active, the time is waited for,
\* and once it is set the clock is written and the connection torn down.
AwaitTime(s, p_timezone) ==
  IF NonZero(s.l_ntpstate.time)
  THEN [s |-> TearDown(Did([s EXCEPT !.rtc =
                  rtc_set_datetime(@, ntp_apply_timezone(s.l_ntpstate.time,
                                                         p_timezone))],
                           {"rtc_set_datetime"})),
        ret |-> TRUE]
  ELSE [s |-> s, ret |-> FALSE]

\* A connected phase that asks for no pcb.
Connected_NoPcb(s, p_timezone, env) ==
  IF s.l_ntpstate.active_query
  THEN AwaitTime(s, p_timezone)
  ELSE Lookup(s, env)

\* checktime, lines 316 to 370: not connecting.  env.udp_ok: udp_new_ip_type
\* returned a pcb.
Connected(s, p_timezone, env) ==
  IF s.l_ntpstate.socket = 0 /\ ~env.udp_ok
  THEN [s |-> Did(s, {"resource_error"}), ret |-> FALSE]
  ELSE LET t == IF s.l_ntpstate.socket = 0
                THEN Did([s EXCEPT !.l_ntpstate.socket = 1], {"udp_new"})
                ELSE s
       IN  IF t.l_ntpstate.active_query
           THEN AwaitTime(t, p_timezone)
           ELSE Lookup(t, env)

\* A checktime that gives up on a hard link failure at any time, not only
\* while the link is being established.
checktime_WatchesLink(s, p_timezone, env) ==
  LET s1 == IF ~s.l_active THEN StartCycle(s) ELSE s
      l_link_status == env.link
  IN  IF HardFailure(l_link_status)
      THEN [s |-> Did(TearDown(s1), {"link_error"}), ret |-> FALSE]
      ELSE LET s2 == IF s1.l_connecting /\ l_link_status = "CYW43_LINK_UP"
                     THEN [s1 EXCEPT !.l_connecting = FALSE]
                     ELSE s1
           IN  IF ~s2.l_connecting
               THEN Connected(s2, p_timezone, env)
               ELSE [s |-> s2, ret |-> FALSE]

\* checktime: the state after the call and the value returned.
checktime(s, p_timezone, env) ==
  LET s1 == IF ~s.l_active THEN StartCycle(s) ELSE s
      l_link_status == env.link
  IN  IF s1.l_connecting /\ HardFailure(l_link_status)
      THEN [s |-> Did(TearDown(s1), {"link_error"}), ret |-> FALSE]
      ELSE LET s2 == IF s1.l_connecting /\ l_link_status = "CYW43_LINK_UP"
                     THEN [s1 EXCEPT !.l_connecting = FALSE]
                     ELSE s1
           IN  IF ~s2.l_connecting
               THEN Connected(s2, p_timezone, env)
               ELSE [s |-> s2, ret |-> FALSE]

(***************************************************************************)
(* The actions of the synchronisation.                                     *)
(***************************************************************************)
\* What the environment decides during one call: the link status, whether
\* udp_new_ip_type and pbuf_alloc return an object, what dns_gethostbyname
\* returns and the cached address it stores on ERR_OK, and whether a null
\* dereference faults.
MkEnv(link, udp_ok, d) ==
  [link |-> link, udp_ok |-> udp_ok, dns_err |-> d.dns_err, addr |-> d.addr,
   pbuf_ok |-> d.pbuf_ok, fault |-> d.fault]

\* What ntp_request may meet: a buffer, or none, with or without a fault.
Buffers == { [pbuf_ok |-> TRUE, fault |-> FALSE], [pbuf_ok |-> FALSE, fault |-> FALSE],
             [pbuf_ok |-> FALSE, fault |-> TRUE] }

NoLookup == [dns_err |-> "ERR_INPROGRESS", addr |-> 1, pbuf_ok |-> TRUE, fault |-> FALSE]

\* What a lookup may meet: a query sent, an error, or a cached address and
\* then what ntp_request meets.
Lookups ==
  { NoLookup, [NoLookup EXCEPT !.dns_err = "ERR_MEM"] }
    \cup { [dns_err |-> "ERR_OK", addr |-> a, pbuf_ok |-> b.pbuf_ok, fault |-> b.fault] :
             a \in Addrs, b \in Buffers }

\* The environments of a call of checktime from the present state.  Only
\* what the call can observe is varied: the link status while the link is
\* being established, udp_new_ip_type's result when the call gets as far as
\* asking for a pcb, and the lookup's when it gets as far as the lookup.
PollEnvs ==
  LET fresh == ~l_active
      Links == IF fresh \/ l_connecting THEN LinkStatus ELSE {"CYW43_LINK_UP"}
      Udps(link) == IF link = "CYW43_LINK_UP" /\ (fresh \/ l_ntpstate.socket = 0)
                    THEN BOOLEAN ELSE {TRUE}
      Dnss(link, udp_ok) ==
        IF link = "CYW43_LINK_UP" /\ udp_ok /\ (fresh \/ ~l_ntpstate.active_query)
        THEN Lookups ELSE {NoLookup}
  IN  UNION { UNION { { MkEnv(link, udp_ok, d) : d \in Dnss(link, udp_ok) } :
                        udp_ok \in Udps(link) } :
                link \in Links }

\* The environments of a callback: only ntp_request's buffer matters.
CallbackEnvs == { MkEnv("CYW43_LINK_UP", TRUE, [NoLookup EXCEPT !.pbuf_ok = b.pbuf_ok,
                                                               !.fault = b.fault]) :
                    b \in Buffers }

\* Every environment, whether the call can observe the choice or not.
Env ==
  [link : LinkStatus, udp_ok : BOOLEAN, dns_err : DnsResult, addr : Addrs,
   pbuf_ok : BOOLEAN, fault : BOOLEAN]

Here ==
  [l_active |-> l_active, l_connecting |-> l_connecting, l_ntpstate |-> l_ntpstate,
   rtc |-> rtc, cyw43 |-> cyw43, bound |-> bound, dns |-> dns, crashed |-> crashed,
   ev |-> {}]

Becomes(s) ==
  /\ l_active' = s.l_active
  /\ l_connecting' = s.l_connecting
  /\ l_ntpstate' = s.l_ntpstate
  /\ rtc' = s.rtc
  /\ cyw43' = s.cyw43
  /\ bound' = s.bound
  /\ dns' = s.dns
  /\ crashed' = s.crashed

\* What a run found, from its events.
Found(ev, returned, before) ==
  IF returned THEN "succeeded"
  ELSE IF "link_error" \in ev THEN "link_error"
  ELSE IF "resource_error" \in ev THEN "resource_error"
  ELSE IF "resolution_error" \in ev THEN "resolution_error"
  ELSE before

Count(ev, e) == IF e \in ev THEN 1 ELSE 0

\* The seconds that may pass from one frame to the next: a second, or a
\* synchronisation interval.  Only what the frame can observe is varied:
\* while l_ntp_tick is 0 the clock is due whatever the time.
Elapse == IF l_ntp_tick = 0 THEN {1} ELSE {1, BC_NTP_FREQUENCY_SECS}

\* The frames that have begun when the last began at now, each a second or
\* an interval after the one before.
Frames(now) == (now \div BC_NTP_FREQUENCY_SECS) + (now % BC_NTP_FREQUENCY_SECS)

\* main, lines 508 and 509: the clock is to be checked in a frame that
\* begins at now.
Due(now) == l_ntp_tick = 0 \/ now > l_ntp_tick + BC_NTP_FREQUENCY_SECS

\* main, lines 497 to 516: a frame in which the clock is to be checked: one
\* call of checktime( l_timezone ), and l_ntp_tick set if it returns true.
PollIn(cycles, frames) ==
  /\ ~crashed
  /\ l_active \/ cycle < cycles
  /\ \E dt \in Elapse, env \in PollEnvs :
       LET now     == l_current_tick + dt
           r       == checktime(Here, l_timezone, env)
           started == ~l_active
           ends    == ~r.s.l_active
       IN  /\ Frames(now) <= frames
           /\ Due(now)
           /\ l_current_tick' = now
           /\ l_ntp_tick' = IF r.ret THEN now ELSE l_ntp_tick
           /\ Becomes(r.s)
           /\ cycle' = IF started THEN cycle + 1 ELSE cycle
           /\ requests' = (IF started THEN 0 ELSE requests)
                            + Count(r.s.ev, "ntp_request")
           /\ accepted' = (~started /\ accepted)
           /\ resolved' = ((~started /\ resolved) \/ "resolved" \in r.s.ev)
           /\ late' = (late /\ ~ends)
           /\ result' = r.ret
           /\ outcome' = Found(r.s.ev, r.ret, "pending")
           /\ lookups' = (IF started THEN 0 ELSE lookups)
                           + Count(r.s.ev, "dns_gethostbyname")
           /\ ended' = IF ends THEN now ELSE ended
  /\ dropped' = FALSE
  /\ UNCHANGED << l_timezone, presses, fnVars, rainVars >>

Poll == PollIn(MaxCycles, MaxFrames)

\* main, lines 497 to 516: a frame in which the clock is not to be checked.
WaitIn(frames) ==
  /\ ~crashed
  /\ \E dt \in Elapse :
       LET now == l_current_tick + dt
       IN  /\ Frames(now) <= frames
           /\ ~Due(now)
           /\ l_current_tick' = now
  /\ dropped' = FALSE
  /\ UNCHANGED << progVars, l_ntp_tick, envVars, histVars, fnVars, rainVars >>

Wait == WaitIn(MaxFrames)

\* lwIP calls ntpcb_dns back, once for each lookup in progress, with the
\* address or with nullptr.
DnsDone ==
  /\ ~crashed
  /\ dns = "pending"
  /\ \E p_addr \in Addrs \cup {0}, env \in CallbackEnvs :
       LET s == ntpcb_dns(Here, p_addr, env)
       IN  /\ Becomes(s)
           /\ requests' = requests + Count(s.ev, "ntp_request")
           /\ resolved' = (resolved \/ "resolved" \in s.ev)
           /\ outcome' = Found(s.ev, FALSE, outcome)
  /\ dropped' = FALSE
  /\ UNCHANGED << l_timezone, tickVars, cycle, accepted, late, result, presses,
                  lookups, ended, fnVars, rainVars >>

\* lwIP hands the datagram d, which reached the session's bound pcb, to
\* ntpcb_recv.
Deliver(d) ==
  /\ ~crashed
  /\ l_ntpstate.socket # 0
  /\ bound
  /\ l_ntpstate' = ntpcb_recv(l_ntpstate, d.buf, d.port)
  /\ accepted' = (accepted \/ (l_active /\ LooksValid(d.buf, d.port)))
  /\ late' = (late \/ (~l_active /\ LooksValid(d.buf, d.port)))
  /\ dropped' = ~LooksValid(d.buf, d.port)
  /\ UNCHANGED << l_active, l_connecting, l_timezone, rtc, tickVars, envVars,
                  cycle, requests, resolved, result, outcome, presses, lookups,
                  ended, fnVars, rainVars >>

Recv == \E d \in Datagrams : Deliver(d)

\* A volume-up button that does not look at the timezone it has reached.
VolumeUpIn_NoLimit(most) ==
  /\ ~crashed
  /\ presses < most
  /\ presses' = presses + 1
  /\ l_timezone' = l_timezone + 1
  /\ rtc' = rtc_set_datetime(rtc, rtc_add_hours(rtc, 1))
  /\ dropped' = FALSE
  /\ UNCHANGED << l_active, l_connecting, l_ntpstate, tickVars, envVars, fnVars, rainVars,
                  cycle, requests, resolved, accepted, late, result, outcome,
                  lookups, ended >>

\* main, lines 544 to 558: the volume-up button moves the timezone east.
VolumeUpIn(most) ==
  /\ ~crashed
  /\ presses < most
  /\ presses' = presses + 1
  /\ IF l_timezone < TZ_MAX
     THEN /\ l_timezone' = l_timezone + 1
          /\ rtc' = rtc_set_datetime(rtc, rtc_add_hours(rtc, 1))
     ELSE UNCHANGED << l_timezone, rtc >>
  /\ dropped' = FALSE
  /\ UNCHANGED << l_active, l_connecting, l_ntpstate, tickVars, envVars, fnVars, rainVars,
                  cycle, requests, resolved, accepted, late, result, outcome,
                  lookups, ended >>

VolumeUp == VolumeUpIn(MaxPresses)

\* main, lines 559 to 573: the volume-down button moves the timezone west.
VolumeDownIn(most) ==
  /\ ~crashed
  /\ presses < most
  /\ presses' = presses + 1
  /\ IF l_timezone > TZ_MIN
     THEN /\ l_timezone' = l_timezone - 1
          /\ rtc' = rtc_set_datetime(rtc, rtc_add_hours(rtc, -1))
     ELSE UNCHANGED << l_timezone, rtc >>
  /\ dropped' = FALSE
  /\ UNCHANGED << l_active, l_connecting, l_ntpstate, tickVars, envVars, fnVars, rainVars,
                  cycle, requests, resolved, accepted, late, result, outcome,
                  lookups, ended >>

VolumeDown == VolumeDownIn(MaxPresses)

\* The statics of checktime and the locals of main before the loop; the
\* clock is set to 2023-01-01 00:00:00, a Sunday (lines 475 to 480).
InitProg ==
  /\ l_active = FALSE
  /\ l_connecting = FALSE
  /\ l_ntpstate = [server |-> 0, socket |-> 0, active_query |-> FALSE, time |-> U32Zero]
  /\ l_timezone = 0
  /\ l_current_tick = 0
  /\ l_ntp_tick = 0
  /\ rtc = rtc_set_datetime(datetime_t(0, 0, 0, 0, 0, 0, 0),
                            datetime_t(2023, 1, 1, 0, 0, 0, 0))
  /\ cyw43 = FALSE
  /\ bound = FALSE
  /\ dns = "none"
  /\ crashed = FALSE
  /\ cycle = 0
  /\ requests = 0
  /\ resolved = FALSE
  /\ accepted = FALSE
  /\ late = FALSE
  /\ result = FALSE
  /\ outcome = "none"
  /\ presses = 0
  /\ lookups = 0
  /\ ended = 0
  /\ dropped = FALSE

(***************************************************************************)
(* The rain animation (rain.cpp).  l_raindrops is the array of raindrops,  *)
(* indexed from 0, each with its age and whether it is alive (its place on *)
(* the display is only handed to the drawing calls and is left out); drawn *)
(* is the set of ages main indexed the palette with in the last frame.     *)
(***************************************************************************)
RAINDROP_LIFESPAN == 7
RAINDROP_MAX == 10
RAINDROP_MIN == 2

\* The age of a raindrop that was never assigned one: the array is a local
\* of main and only alive is initialised.
Indeterminate == -1

Slots == 0..(RAINDROP_MAX - 1)

Living(drops) == { i \in Slots : drops[i].alive }

\* A first loop that lets no raindrop die.
Expire_Never(drops, olds) == drops

\* main, lines 110 to 117: a raindrop that has reached its lifespan dies.
\* The test reads the age of every slot, assigned or not: olds are the
\* slots of indeterminate age whose read came out at the lifespan or above
\* (the loop treats each slot by itself, so the frame draws two cases: none
\* of these reads came out so, or all did).
Expire(drops, olds) ==
  [i \in Slots |->
     IF \/ drops[i].age # Indeterminate /\ drops[i].age >= RAINDROP_LIFESPAN
        \/ i \in olds
     THEN [drops[i] EXCEPT !.alive = FALSE]
     ELSE drops[i]]

\* main, lines 108 to 129: the last slot that holds no living raindrop,
\* RAINDROP_MAX if there is none.
DropGap(drops) ==
  IF Living(drops) = Slots THEN RAINDROP_MAX
  ELSE CHOOSE i \in Slots \ Living(drops) :
         \A j \in Slots \ Living(drops) : j <= i

\* main, lines 132 to 140: a new raindrop when there is a gap and fewer
\* alive than wanted, wanted being RAINDROP_MIN + rand() % (RAINDROP_MAX -
\* RAINDROP_MIN).
Spawn(drops, wanted) ==
  LET l_dropcount == Cardinality(Living(drops))
      l_dropgap   == DropGap(drops)
  IN  IF l_dropgap < RAINDROP_MAX /\ l_dropcount < wanted
      THEN [drops EXCEPT ![l_dropgap] = [age |-> 0, alive |-> TRUE]]
      ELSE drops

\* main, lines 143 to 182: every living raindrop is drawn and aged.
Age(drops) ==
  [i \in Slots |-> IF drops[i].alive
                   THEN [drops[i] EXCEPT !.age = @ + 1]
                   ELSE drops[i]]

\* main, lines 103 to 189: one frame of the animation.
RainFrame ==
  /\ \E olds \in { {}, { i \in Slots : l_raindrops[i].age = Indeterminate } } :
       \E kept \in { Expire(l_raindrops, olds) } :
         \E wanted \in RAINDROP_MIN..(RAINDROP_MAX - 1) :
           \E shown \in { Spawn(kept, wanted) } :
             /\ drawn' = { shown[i].age : i \in Living(shown) }
             /\ l_raindrops' = Age(shown)
  /\ UNCHANGED << progVars, tickVars, envVars, histVars, dropped, fnVars >>

\* main, lines 90 to 93: every raindrop is dead, of no age yet.
InitRain ==
  /\ l_raindrops = [i \in Slots |-> [age |-> Indeterminate, alive |-> FALSE]]
  /\ drawn = {}

NoCall == [op |-> "none"]

Init ==
  /\ InitProg
  /\ InitRain
  /\ call = NoCall
  /\ ret = NoCall
  /\ pcf = "idle"

Next == Poll \/ Wait \/ DnsDone \/ Recv \/ VolumeUp \/ VolumeDown

Spec == Init /\ [][Next]_vars

(***************************************************************************)
(* The specification of the rain animation.                                *)
(***************************************************************************)
NextRain == RainFrame

SpecRain == Init /\ [][NextRain]_vars

(***************************************************************************)
(* The specification of the timezone buttons: the same program, run for    *)
(* fewer frames and cycles and with more presses of the buttons.          *)
(***************************************************************************)
KeysPoll == PollIn(MaxKeyCycles, MaxKeyFrames)
KeysWait == WaitIn(MaxKeyFrames)
KeysUp == VolumeUpIn(MaxKeyPresses)
KeysDown == VolumeDownIn(MaxKeyPresses)

NextKeys == KeysPoll \/ KeysWait \/ DnsDone \/ Recv \/ KeysUp \/ KeysDown

SpecKeys == Init /\ [][NextKeys]_vars

(***************************************************************************)
(* The second specification: the pure functions applied to drawn           *)
(* arguments.  call holds the function and its arguments, ret the value    *)
(* returned, pcf the position: "ready", then "done" (for rtc_add_hours:    *)
(* "shifted" after the first application, "done" after the second, which   *)
(* shifts the result back by the opposite delta).                          *)
(***************************************************************************)
\* Timestamp bytes: those of the datagrams, and 0xFFFFFFFF, 0x01020304 and
\* 0x83AA7E80 (2208988800, 1970-01-01 00:00:00).
FnTimeBytes ==
  TimeBytes \cup { << 255, 255, 255, 255 >>, << 1, 2, 3, 4 >>, << 131, 170, 126, 128 >> }

\* Calls of ntpcb_recv: the time in the state before, the source port, and
\* a packet of a length, a first byte (0x24 0x1C 0x04 0xFC have mode 4;
\* 0x1B 0x25 0x00 0x23 have not), a stratum and a timestamp.
RecvCalls ==
  { [op |-> "ntpcb_recv", before |-> t0, port |-> p, buf |-> MkPacket(n, b0, b1, ts)] :
      t0 \in {U32Zero, ShiftOr(1, 2, 3, 4)}, p \in {123, 124, 0},
      n \in {0, 47, 48, 49}, b0 \in {36, 28, 4, 252, 27, 37, 0, 35},
      b1 \in {0, 1, 2, 255}, ts \in FnTimeBytes }

\* Calls of ntp_apply_timezone: a timestamp and every offset main can pass.
ApplyCalls ==
  { [op |-> "ntp_apply_timezone", t |-> ShiftOr(ts[1], ts[2], ts[3], ts[4]), h |-> h] :
      ts \in FnTimeBytes, h \in TZ_MIN..TZ_MAX }

\* Wall-clock records the real-time clock can hold: main's initial
\* 2023-01-01 (a Sunday), 2021-11-27 00:53:20 (a Saturday), 2023-01-31
\* 23:59:59 (a Tuesday), 2024-02-29 12:30:15 (a Thursday), 2023-12-31
\* 23:00:00 (a Sunday), and 2023-06-15 08:00:00 with a wrong weekday.
Clocks ==
  { datetime_t(2023, 1, 1, 0, 0, 0, 0), datetime_t(2021, 11, 27, 6, 0, 53, 20),
    datetime_t(2023, 1, 31, 2, 23, 59, 59), datetime_t(2024, 2, 29, 4, 12, 30, 15),
    datetime_t(2023, 12, 31, 0, 23, 0, 0), datetime_t(2023, 6, 15, 0, 8, 0, 0) }

\* Deltas of hours.
Deltas == {-25, -1, 0, 1, 24, 127}

ShiftCalls == { [op |-> "rtc_add_hours", w |-> w, d |-> d] : w \in Clocks, d \in Deltas }

CallRecv ==
  /\ pcf = "ready"
  /\ call.op = "ntpcb_recv"
  /\ ret' = ntpcb_recv([l_ntpstate EXCEPT !.time = call.before], call.buf, call.port)
  /\ pcf' = "done"
  /\ UNCHANGED << call, progVars, tickVars, envVars, histVars, dropped,
                  rainVars >>

CallApply ==
  /\ pcf = "ready"
  /\ call.op = "ntp_apply_timezone"
  /\ ret' = ntp_apply_timezone(call.t, call.h)
  /\ pcf' = "done"
  /\ UNCHANGED << call, progVars, tickVars, envVars, histVars, dropped,
                  rainVars >>

CallShift ==
  /\ pcf = "ready"
  /\ call.op = "rtc_add_hours"
  /\ ret' = rtc_add_hours(call.w, call.d)
  /\ pcf' = "shifted"
  /\ UNCHANGED << call, progVars, tickVars, envVars, histVars, dropped,
                  rainVars >>

CallShiftBack ==
  /\ pcf = "shifted"
  /\ ret' = rtc_add_hours(ret, ToInt8(-call.d))
  /\ pcf' = "done"
  /\ UNCHANGED << call, progVars, tickVars, envVars, histVars, dropped,
                  rainVars >>

InitFn ==
  /\ InitProg
  /\ InitRain
  /\ call \in RecvCalls \cup ApplyCalls \cup ShiftCalls
  /\ ret = NoCall
  /\ pcf = "ready"

NextFn == CallRecv \/ CallApply \/ CallShift \/ CallShiftBack

SpecFn == InitFn /\ [][NextFn]_vars

(***************************************************************************)
(* The claims about the pure functions, under SpecFn.                      *)
(***************************************************************************)
Returned(op) == pcf = "done" /\ call.op = op

\* The acceptance condition as the specification words it.
Acceptable(c) ==
  /\ c.port = 123
  /\ Len(c.buf) = 48
  /\ c.buf[1] % 8 = 4
  /\ c.buf[2] # 0

\* C1: ntpcb_recv records a timestamp if and only if the source port is
\* 123, the length 48, the low three bits of byte 0 are 4 and byte 1 is not
\* 0; the value recorded is the big-endian number of bytes 40..43 (its
\* base-256 digits are those bytes); any other packet, a packet with
\* stratum 0 among them, leaves the state as it was.
C1_RecvAcceptsIff ==
  Returned("ntpcb_recv") =>
    IF Acceptable(call)
    THEN /\ Digits256(ret.time) = << call.buf[41], call.buf[42], call.buf[43], call.buf[44] >>
         /\ ret = [l_ntpstate EXCEPT !.time = ret.time]
    ELSE ret = [l_ntpstate EXCEPT !.time = call.before]

\* A packet was accepted and the time recorded differs from the one before.
C1_Witness ==
  /\ Returned("ntpcb_recv")
  /\ Acceptable(call)
  /\ call.buf[2] = 255
  /\ call.before = U32Zero
  /\ ret.time = [hi |-> 65535, lo |-> 65535]

\* The packet of the concrete case: 48 bytes from port 123, byte 0 0x24,
\* byte 1 0x01, bytes 40..43 0xE5 0x4C 0x00 0x00.
ConcreteCase ==
  /\ Returned("ntpcb_recv")
  /\ call.port = 123
  /\ call.buf = MkPacket(48, 36, 1, << 229, 76, 0, 0 >>)

\* C2 as claimed: the packet of the concrete case is accepted and decodes to
\* the raw timestamp 3847634944.
C2_DecodesTo3847634944 ==
  ConcreteCase => Decimal(ret.time) = << 3, 8, 4, 7, 6, 3, 4, 9, 4, 4 >>

\* C2 as amended: the packet of the concrete case is accepted and decodes to
\* the raw timestamp 3846963200, which is 0xE54C0000.
C2_DecodesTo3846963200 ==
  ConcreteCase => Decimal(ret.time) = << 3, 8, 4, 6, 9, 6, 3, 2, 0, 0 >>

\* The concrete case has run from a state whose time was zero.
C2_Witness == ConcreteCase /\ call.before = U32Zero /\ NonZero(ret.time)

\* A wall-clock record read as a calendar date and time of day: the instant
\* it denotes, and the weekday of its date.
InstantOf(w) ==
  [days |-> DaysFromCivil(w.year, w.month, w.day),
   secs |-> w.hour * 3600 + w.min * 60 + w.sec]

WeekdayOf(w) == (DaysFromCivil(w.year, w.month, w.day) + 4) % 7

\* t - 2208988800 + 3600 * h seconds since 1970-01-01.
UnixInstant(t, h) ==
  TimeAdd([days |-> U32ToTime(t).days - 25567, secs |-> U32ToTime(t).secs], 3600 * h)

\* C9 as claimed: the record ntp_apply_timezone(t, h) returns, read as a
\* calendar date and time of day, denotes the instant t - 2208988800 +
\* 3600 * h seconds since 1970-01-01, and its weekday is that date's.
C9_RecordDenotesInstant ==
  Returned("ntp_apply_timezone") =>
    /\ InstantOf(ret) = UnixInstant(call.t, call.h)
    /\ ret.dotw = WeekdayOf(ret)

\* C10 as claimed: shifting a wall-clock record by d hours and then by -d
\* hours gives the record back, in year, month, day, hour, minute and
\* second, and in weekday whenever the record's weekday is its date's.
C10_ShiftRoundTrip ==
  Returned("rtc_add_hours") =>
    /\ ret.year = call.w.year /\ ret.month = call.w.month /\ ret.day = call.w.day
    /\ ret.hour = call.w.hour /\ ret.min = call.w.min /\ ret.sec = call.w.sec
    /\ call.w.dotw = WeekdayOf(call.w) => ret.dotw = call.w.dotw

(***************************************************************************)
(* The claims about the synchronisation, under Spec.                       *)
(***************************************************************************)
\* The phase of the session, read off the program's state: checktime keeps
\* no phase variable.  A cycle runs while l_active holds.
Phase ==
  IF l_active
  THEN IF l_connecting THEN "LinkEstablishing"
       ELSE IF l_ntpstate.active_query
       THEN IF requests > 0 THEN "AwaitingResponse" ELSE "AwaitingResolution"
       ELSE "Failed"
  ELSE IF cycle = 0 THEN "Idle"
       ELSE IF outcome = "succeeded" THEN "Succeeded"
       ELSE "Failed"

\* C3: the request is sent only after name resolution has reported a
\* resolved address in the same cycle (so the session has a server
\* address), and the session is never in AwaitingResponse while a lookup is
\* still outstanding.
C3_RequestAfterResolution ==
  /\ requests > 0 => resolved /\ l_ntpstate.server # 0
  /\ Phase = "AwaitingResponse" => dns = "none"
  /\ dns = "pending" => Phase = "AwaitingResolution"

\* A request has gone out while the cycle runs.
C3_Witness == Phase = "AwaitingResponse" /\ requests = 1 /\ resolved /\ bound

\* C4: within a cycle a response is accepted only after the cycle's request
\* has been sent: while the session awaits resolution no packet reaches the
\* handler and the timestamp is zero, and a cycle that succeeded had sent
\* its request and accepted a packet.
C4_ResponseAfterRequest ==
  /\ l_active /\ (accepted \/ NonZero(l_ntpstate.time)) => requests > 0
  /\ Phase = "AwaitingResolution" => ~bound /\ ~accepted /\ ~NonZero(l_ntpstate.time)
  /\ outcome = "succeeded" => requests > 0 /\ accepted

\* A cycle has succeeded, on a response accepted after its one request.
C4_Witness == Phase = "Succeeded" /\ accepted /\ requests = 1 /\ result

C6_TimeSetOnce ==
  [][NonZero(l_ntpstate.time) /\ cycle' = cycle
       => l_ntpstate'.time = l_ntpstate.time]_vars

\* C6 as amended: the timestamp is zeroed by the poll that starts a cycle
\* and is otherwise written only by the response handler, which overwrites
\* it with every packet it accepts; no other poll (the one that returns
\* true included), no DNS callback and no button press changes it.
C6_TimeWrittenByRecvOrReset ==
  [][l_ntpstate'.time # l_ntpstate.time
       => \/ Recv
          \/ ~l_active /\ cycle' = cycle + 1 /\ l_ntpstate'.time = U32Zero]_vars

\* The response handler has written the timestamp of the running cycle.
C6_Witness ==
  /\ Phase = "AwaitingResponse" /\ accepted
  /\ l_ntpstate.time = [hi |-> 58764, lo |-> 36096]

\* C7: a completion of an ended cycle does not reach the next cycle.  A
\* lookup is outstanding only inside a cycle whose link phase is over, so
\* none outlives its cycle; and whatever packets the old endpoint received
\* after its cycle ended, the new cycle starts its link phase with no
\* endpoint, no query and a zero timestamp, has a timestamp only from a
\* packet accepted in the new cycle, and sends a request only upon its own
\* resolution.
C7_NoCrossCycleLeak ==
  /\ dns = "pending" => l_active /\ ~l_connecting /\ l_ntpstate.active_query
  /\ Phase = "LinkEstablishing" =>
       /\ l_ntpstate.socket = 0 /\ ~bound
       /\ ~l_ntpstate.active_query
       /\ l_ntpstate.time = U32Zero
       /\ requests = 0
  /\ l_active /\ NonZero(l_ntpstate.time) => accepted
  /\ l_active /\ (bound \/ requests > 0) => resolved

\* A packet was accepted after the first cycle ended, and the second cycle
\* is running.
C7_Witness == late /\ l_active /\ cycle = 2 /\ l_ntpstate.time = U32Zero

\* The response has been recorded in the running cycle.
Recorded ==
  /\ l_active /\ ~l_connecting
  /\ l_ntpstate.active_query
  /\ NonZero(l_ntpstate.time)

\* C8 as claimed: every poll before the response is recorded returns false;
\* the first poll after it is recorded returns true, and the wall-clock
\* time it writes to the real-time clock is the instant of the raw
\* timestamp under the timezone offset passed to the poll.
C8_EndToEnd ==
  [][Poll =>
       IF Recorded
       THEN /\ result'
            /\ InstantOf(rtc') = UnixInstant(l_ntpstate.time, l_timezone)
            /\ rtc'.dotw = WeekdayOf(rtc')
       ELSE ~result']_vars

(***************************************************************************)
(* The claims about the timezone, under SpecKeys.                          *)
(***************************************************************************)
\* C11: the timezone offset stays within [-12, +14]; a press of a timezone
\* button changes it by exactly +1 or -1, or leaves it alone when it is at
\* an end of the range; checktime and the callbacks never change it.
C11_TimezoneInRange ==
  [][/\ l_timezone \in TZ_MIN..TZ_MAX
     /\ l_timezone' \in TZ_MIN..TZ_MAX
     /\ presses' = presses => l_timezone' = l_timezone
     /\ presses' # presses =>
          \/ l_timezone' = l_timezone + 1
          \/ l_timezone' = l_timezone - 1
          \/ l_timezone' = l_timezone /\ l_timezone \in {TZ_MIN, TZ_MAX}]_vars

\* The offset is at +14, a further press has been refused, and a
\* synchronisation has succeeded in between.
C11_Witness == l_timezone = TZ_MAX /\ presses > TZ_MAX /\ outcome = "succeeded"

(***************************************************************************)
(* The claims about failures, under Spec.                                  *)
(***************************************************************************)
\* What a call of checktime or a callback may find that the specification
\* calls a terminal failure.
Failures == {"link_error", "resolution_error", "resource_error"}

\* C12 as claimed: a terminal failure is surfaced as the result of the poll
\* that detects it, with a value the caller can tell from Pending: a poll
\* that finds a failure does not return false, the value of a poll that
\* found nothing yet, and a failure found by the DNS callback is returned by
\* the poll after it.
C12_FailureSurfaced ==
  [][Poll =>
       /\ outcome' \in Failures => result' # FALSE
       /\ outcome = "resolution_error" => outcome' = "resolution_error"]_vars

\* C13 as claimed: once resolution has reported failure, no poll of the
\* same cycle starts another lookup or sends a request.
C13_ResolutionFailureTerminal ==
  [][outcome = "resolution_error" /\ cycle' = cycle =>
       lookups' = lookups /\ requests' = requests]_vars

\* C14 as claimed: ntp_request does not crash when pbuf_alloc returns no
\* buffer (crashed is set by ntp_request alone, on the access to the
\* payload of the buffer it did not get).
C14_NoCrashWithoutBuffer == ~crashed

\* C15 as claimed: when a poll or a callback has found a terminal outcome,
\* the wireless has been torn down and the endpoint closed.
C15_ReleasedOnTerminal ==
  outcome \in Failures \cup {"succeeded"} => ~cyw43 /\ l_ntpstate.socket = 0

(***************************************************************************)
(* The claims about requests, the clock and discarded packets, under Spec. *)
(***************************************************************************)
\* C16: no cycle sends more than one request: ntp_request is called at
\* most once between the start of a cycle and its end, whether resolution
\* answers at once, later, or fails first and is asked again.
C16_OneRequestPerCycle == requests <= 1

\* A request has been sent by the second lookup of a cycle, the first
\* having failed.
C16_Witness == requests = 1 /\ lookups = 2 /\ bound /\ cycle = 1

\* C17: checktime writes the real-time clock only in a poll that returns
\* true: a poll that returns false, a DNS callback and a response callback
\* leave the clock as it was.
C17_ClockWrittenOnSuccessOnly ==
  [][(Poll /\ ~result') \/ DnsDone \/ Recv => rtc' = rtc]_vars

\* A poll has returned true and written the clock, no button having been
\* pressed.
C17_Witness ==
  result /\ presses = 0 /\ rtc # datetime_t(2023, 1, 1, 0, 0, 0, 0)

\* C18: a packet that fails validation is discarded: delivering it leaves
\* the session's state, the clock and what the caller was last told as they
\* were, and the poll after it, the cycle still waiting for its response,
\* returns false and goes on waiting.
C18_InvalidPacketDiscarded ==
  [][/\ \A d \in Datagrams :
          ~Acceptable(d) /\ Deliver(d) =>
            UNCHANGED << progVars, tickVars, envVars, result, outcome >>
     /\ dropped /\ Poll /\ l_active /\ ~NonZero(l_ntpstate.time) =>
          /\ ~result'
          /\ outcome' = "pending"
          /\ l_active'
          /\ l_ntpstate' = l_ntpstate]_vars

\* A packet has been discarded while the cycle waits for its response.
C18_Witness ==
  dropped /\ Phase = "AwaitingResponse" /\ ~NonZero(l_ntpstate.time) /\ ~accepted

\* C19 as claimed: after a cycle has ended, in success or in failure, the
\* next one starts only when more than BC_NTP_FREQUENCY_SECS seconds have
\* passed since.
C19_RetryAfterInterval ==
  [][cycle > 0 /\ cycle' = cycle + 1 =>
       l_current_tick' > ended + BC_NTP_FREQUENCY_SECS]_vars

\* The first poll of a cycle found nothing done: no pcb, no lookup, no
\* request.
Quiet(s) ==
  /\ s.l_ntpstate.socket = 0
  /\ ~s.l_ntpstate.active_query
  /\ s.dns = "none"
  /\ s.ev \cap {"udp_new", "dns_gethostbyname", "ntp_request", "udp_sendto"} = {}

\* C20 as claimed: whatever the call meets, the first poll of a cycle
\* returns false and leaves the session establishing its link, with no
\* endpoint opened, no resolution triggered and no packet sent.
C20_FirstPollOnlyConnects ==
  [][Poll /\ ~l_active =>
       /\ ~result'
       /\ l_active' /\ l_connecting'
       /\ l_ntpstate'.socket = 0
       /\ lookups' = 0
       /\ requests' = 0]_vars

\* C20 as amended: the first poll of a cycle always returns false and never
\* writes the clock.  It leaves the session establishing its link, with
\* nothing else done, when the link status it reads is neither up nor a
\* hard failure; on a hard failure it ends the cycle at once; when the link
\* is reported up it goes on in the same call to open the endpoint and
\* start the lookup, and sends the request if the address was cached.
C20_FirstPollReturnsPending ==
  ~l_active /\ ~crashed =>
    \A env \in PollEnvs :
      LET r == checktime(Here, l_timezone, env)
      IN  /\ ~r.ret
          /\ r.s.rtc = rtc
          /\ IF env.link \in {"CYW43_LINK_FAIL", "CYW43_LINK_BADAUTH",
                               "CYW43_LINK_NONET"}
             THEN ~r.s.l_active /\ ~r.s.cyw43 /\ Quiet(r.s)
             ELSE IF env.link # "CYW43_LINK_UP"
             THEN r.s.l_active /\ r.s.l_connecting /\ Quiet(r.s)
             ELSE /\ r.s.l_active /\ ~r.s.l_connecting
                  /\ IF env.udp_ok
                     THEN /\ r.s.l_ntpstate.socket # 0
                          /\ "dns_gethostbyname" \in r.s.ev
                          /\ "ntp_request" \in r.s.ev <=> env.dns_err = "ERR_OK"
                     ELSE Quiet(r.s)

\* The first poll of the first cycle met the link up and a cached address,
\* and sent the request.
C20_Witness == cycle = 1 /\ l_current_tick = 1 /\ requests = 1 /\ bound

(***************************************************************************)
(* The claims about the polls of a cycle, under Spec.                      *)
(***************************************************************************)
\* C21: a poll returns true if and only if, when it runs, the link phase is
\* over, a query is active and a non-zero timestamp is recorded; it does so
\* only on a response accepted in the cycle it is in, never in the poll
\* that starts a cycle (which has zeroed the timestamp), and never on an
\* accepted response whose timestamp is 0.
C21_SucceedsIffRecorded ==
  [][Poll =>
       /\ result' <=> Recorded
       /\ result' => accepted /\ cycle' = cycle /\ NonZero(l_ntpstate.time)
       /\ cycle' # cycle => ~NonZero(l_ntpstate'.time)]_vars

\* The second cycle has succeeded, on a response of its own.
C21_Witness == result /\ cycle = 2 /\ accepted /\ ~l_active

\* The session awaits resolution or a response: the link phase is over, a
\* query is active and no timestamp is recorded.
Awaiting ==
  /\ l_active /\ ~l_connecting
  /\ l_ntpstate.active_query
  /\ ~NonZero(l_ntpstate.time)
  /\ ~crashed

\* C22: there is no timeout and no retransmission: while the session awaits
\* resolution or a response, a call of checktime returns false, changes
\* nothing (statics, endpoint, wireless, clock, pending lookup) and calls
\* nothing, whatever link status it reads, a hard failure included, and
\* whatever else the environment would answer.
C22_WaitingPollChangesNothing ==
  Awaiting =>
    \A env \in Env :
      LET r == checktime(Here, l_timezone, env)
      IN  ~r.ret /\ r.s = Here

\* Three polls have been made while the lookup of the first is still
\* outstanding.
C22_Witness ==
  Awaiting /\ dns = "pending" /\ lookups = 1 /\ l_current_tick = 3 /\ cycle = 1

(***************************************************************************)
(* The claims about the clock under the timezone buttons, under Spec.      *)
(***************************************************************************)
\* C23 as claimed: a press of a timezone button that changes l_timezone
\* moves the instant the clock shows by as many hours, and a press that
\* does not change it leaves the clock alone; a poll that succeeds sets the
\* clock to the instant of the network time under l_timezone.  (So the
\* clock shows network time plus 3600 * l_timezone seconds from the first
\* success on, elapsed time left aside.)
C23_ClockFollowsOffset ==
  [][/\ presses' # presses =>
          IF l_timezone' # l_timezone
          THEN InstantOf(rtc') =
                 TimeAdd(InstantOf(rtc), 3600 * (l_timezone' - l_timezone))
          ELSE rtc' = rtc
     /\ Poll /\ result' =>
          InstantOf(rtc') = UnixInstant(l_ntpstate.time, l_timezone)]_vars

(***************************************************************************)
(* The claims about the endpoint and the wireless, under Spec.             *)
(***************************************************************************)
\* C24: ntp_request is called only while the session's endpoint is there:
\* a step in which it is called ends with the endpoint present in a running
\* cycle, and a lookup is outstanding only in a running cycle that has its
\* endpoint, so that the DNS callback finds it; a lookup never outlives its
\* cycle.
C24_RequestOnlyWithEndpoint ==
  [][/\ dns = "pending" => l_active /\ l_ntpstate.socket # 0
     /\ (requests' > requests \/ (cycle' # cycle /\ requests' > 0)) =>
          l_active' /\ l_ntpstate'.socket # 0]_vars

\* The second cycle has sent its request, on the pcb it allocated after the
\* pcb of the first cycle was removed.
C24_Witness ==
  cycle = 2 /\ requests = 1 /\ l_ntpstate.socket # 0 /\ bound /\ ended > 0

\* C25: the wireless is initialised and torn down in strict alternation,
\* starting with an initialisation: l_active holds exactly while it is
\* initialised, and a call of checktime calls cyw43_arch_init only when it
\* finds the wireless down, calls cyw43_arch_deinit only on a wireless that
\* is up (brought up by this call or before it), and leaves l_active and
\* the wireless agreeing.
C25_InitDeinitAlternate ==
  /\ l_active <=> cyw43
  /\ ~crashed =>
       \A env \in PollEnvs :
         LET r == checktime(Here, l_timezone, env)
         IN  /\ "cyw43_arch_init" \in r.s.ev <=> ~cyw43
             /\ "cyw43_arch_deinit" \in r.s.ev => ~r.s.cyw43
             /\ r.s.l_active <=> r.s.cyw43

\* The wireless is up again in a second cycle, after the teardown that
\* ended the first.
C25_Witness == cycle = 2 /\ cyw43 /\ l_active /\ ended > 0 /\ requests = 0

(***************************************************************************)
(* The claim about the rain animation, under SpecRain.                     *)
(***************************************************************************)
\* C26: every raindrop drawn in a frame has an age in 0..6, within the
\* palette of RAINDROP_LIFESPAN pens; between frames a living raindrop is
\* of age 1..7, one of age 7 dying before the next frame draws anything;
\* and a slot whose age was never assigned is never alive, so never drawn.
C26_AgeWithinPalette ==
  /\ drawn \subseteq 0..(RAINDROP_LIFESPAN - 1)
  /\ \A i \in Slots :
       /\ l_raindrops[i].alive => l_raindrops[i].age \in 1..RAINDROP_LIFESPAN
       /\ l_raindrops[i].age = Indeterminate => ~l_raindrops[i].alive

\* A raindrop of the last age has been drawn, a raindrop that has reached
\* its lifespan has died, and slot 0 has never been used.
C26_Witness ==
  /\ RAINDROP_LIFESPAN - 1 \in drawn
  /\ \E i \in Slots : ~l_raindrops[i].alive /\ l_raindrops[i].age = RAINDROP_LIFESPAN
  /\ l_raindrops[0].age = Indeterminate

=============================================================================
